---- MODULE Spec2Model ----
(***************************************************************************)
(* Run-list pagination engine of 30_PdfRunlistGenerator.py                 *)
(* (generate_pdf_run_list): the row loop, the store/order/job transitions, *)
(* the fragmentation annotator and the page total.                         *)
(*                                                                         *)
(* Lengths are in hundredths of a point (1 inch = 72 pt = 7200), so that   *)
(* every coordinate of the code (15.84 pt rows, 18.2 pt message lines) is  *)
(* an integer.  Quantities are in halves, so that a fractional quantity    *)
(* (2.5) and the int() of the stamp are representable.                     *)
(***************************************************************************)
EXTENDS Integers, Sequences, FiniteSets, TLC

\* ------------------------------------------------------------------------
\* Bounds of the model
\* ------------------------------------------------------------------------
MaxRows == 3
\* sheets per workbook
MaxSheets == 2
\* Pages recorded per sheet.  A run that does not terminate starts pages
\* without end; from page number PageCap on the finalized pages are no longer
\* recorded and page_num no longer counts, so that such a run revisits a
\* state.  Every sheet whose pagination terminates stays below the cap
\* (PagesWithinCap).
PageCap == 2 * MaxRows + 2

\* ------------------------------------------------------------------------
\* Layout metrics
\* ------------------------------------------------------------------------
inch == 7200
margin == (375 * inch) \div 1000
store_padding == 500
header_height == (125 * inch) \div 100
footer_height == inch \div 2
row_height == (22 * inch) \div 100
table_header_height == inch \div 2
header_gap == (22 * inch) \div 100
job_gap == (22 * inch) \div 100
order_gap == (22 * inch) \div 100
store_gap == (22 * inch) \div 100
page_bottom_margin_y == margin + footer_height
frag_msg_font_size == 1400
frag_msg_line_height == (frag_msg_font_size * 13) \div 10
page_bottom_content_area_y == page_bottom_margin_y + (inch \div 2)
\* draw_message_block lowers the cursor by 5 pt before the first line
message_block_offset == 500

\* Room between the first content cursor of a page and the bottom content
\* boundary, for a page of height h (draw_new_page_headers, then header_gap).
TableHeaderBottom(h) == h - margin - header_height - table_header_height
ContentRoom(h) == TableHeaderBottom(h) - header_gap - page_bottom_content_area_y
HeightWithRoom(a) ==
    a + page_bottom_content_area_y + header_gap + table_header_height
      + header_height + margin

\* The page heights explored.  The source fixes the page to 11x17 inch
\* (height 17 inch, room for 60 rows); the model shrinks the page so that
\* page breaks happen within MaxRows rows:
\*   one unit short of two rows;
\*   two rows, and below them a box close and two message lines that end
\*   exactly at the page bottom margin;
\*   a page on which a row, a store change and one more row fit exactly.
RoomTwoRows == store_padding + 2 * row_height
RoomTwoRowsTwoLines ==
    RoomTwoRows + store_padding + message_block_offset
      + 2 * frag_msg_line_height
      - (page_bottom_content_area_y - page_bottom_margin_y)
RoomTwoBoxes == 3 * store_padding + store_gap + 2 * row_height
PageHeights ==
    { HeightWithRoom(RoomTwoRows - 1), HeightWithRoom(RoomTwoRowsTwoLines),
      HeightWithRoom(RoomTwoBoxes) }

\* ------------------------------------------------------------------------
\* Values
\* ------------------------------------------------------------------------
None == "None"
\* None in a coordinate (store_start_y before the first row)
NoneY == 0 - 1
sheet_name == "SheetA"

\* Python's order of the strings the model uses (str comparison).
StringOrder ==
    << " (", " has other content appearing in: ", ")", ", ", "1", "100",
       "2", "200", "3", "300", "300-B", "JOB ", "Order ", "SheetA",
       "SheetB", "SheetC", "Store " >>
StrRank(s) == CHOOSE i \in 1..Len(StringOrder) : StringOrder[i] = s
StrLess(a, b) == StrRank(a) < StrRank(b)

\* pd.to_numeric(raw_text, errors='coerce'), in halves; a text outside the
\* table is not numeric (NaN).
NumericHalves ==
    [t \in {"1", "2.5", "3", "5", "7"} |->
        CASE t = "1" -> 2 [] t = "2.5" -> 5 [] t = "3" -> 6
          [] t = "5" -> 10 [] t = "7" -> 14]
\* lines 546-550: a missing value and the text "nan" are cleared
CellText(raw) == IF raw = "nan" THEN "" ELSE raw
IsNumeric(text) == text \in DOMAIN NumericHalves
\* lines 555-558: what one row adds to page_total_qty
QtyOfRow(row) ==
    LET raw_text == CellText(row.qty)
    IN  IF IsNumeric(raw_text) THEN NumericHalves[raw_text] ELSE 0
\* str(int(page_total_qty)): truncation of the total to whole units
StampedTotal(total) == total \div 2

\* ------------------------------------------------------------------------
\* Fragmentation annotator: _build_fragmentation_lines
\* ------------------------------------------------------------------------
\* dict.get(k, default) and the truth of "d.get(k)" for a key that may be absent
DictHas(d, k) == k \in DOMAIN d
DictGet(d, k, default) == IF k \in DOMAIN d THEN d[k] ELSE default

\* get_store_num: the text before the first '-'
StoreNumTable ==
    [s \in {"100", "200", "300-B"} |-> IF s = "300-B" THEN "300" ELSE s]
get_store_num(store_id) == StoreNumTable[store_id]

RECURSIVE InsertSorted(_, _)
InsertSorted(s, x) ==
    IF s = <<>> THEN <<x>>
    ELSE IF StrLess(x, Head(s)) THEN <<x>> \o s
         ELSE <<Head(s)>> \o InsertSorted(Tail(s), x)
RECURSIVE SortStrings(_)
SortStrings(s) ==
    IF s = <<>> THEN <<>> ELSE InsertSorted(SortStrings(Tail(s)), Head(s))
RECURSIVE JoinComma(_)
\* ", ".join(parts), the parts being token sequences
JoinComma(parts) ==
    IF parts = <<>> THEN <<>>
    ELSE IF Len(parts) = 1 THEN Head(parts)
         ELSE Head(parts) \o <<", ">> \o JoinComma(Tail(parts))

\* the destinations, sorted, the current sheet among them
FormatDestsUnfiltered(dests_list, current_sheet) ==
    LET sorted == SortStrings(dests_list)
    IN  JoinComma([i \in 1..Len(sorted) |-> <<sorted[i]>>])
\* format_dests: the destinations other than the current sheet, sorted
format_dests(dests_list, current_sheet) ==
    LET other == SelectSeq(dests_list, LAMBDA d : d # current_sheet)
        sorted == SortStrings(other)
    IN  JoinComma([i \in 1..Len(sorted) |-> <<sorted[i]>>])

NoMessage == <<>>
\* line 191: the key read from a fragmented_jobs entry
JobFlag(map_job) == DictGet(map_job, "is_fragmentED", FALSE)
\* lines 179-202: the message of one entity, a sequence of text tokens, or
\* NoMessage when the loop body hits a continue
MessageOf(entity, report_map, sheet) ==
    LET store_id == entity[1]
        order_id == entity[2]
        job_id == entity[3]
    IN  IF ~DictHas(report_map, store_id) THEN NoMessage
        ELSE IF ~report_map[store_id].is_fragmented THEN NoMessage
        ELSE
        LET map_store == report_map[store_id]
            orders == map_store.fragmented_orders
            order_flag == DictHas(orders, order_id)
                          /\ orders[order_id].is_fragmented
            job_flag ==
                order_flag
                /\ DictHas(orders[order_id].fragmented_jobs, job_id)
                /\ JobFlag(orders[order_id].fragmented_jobs[job_id])
            context_parts ==
                (IF order_flag THEN << <<"Order ", order_id>> >> ELSE <<>>)
                \o (IF job_flag THEN << <<"JOB ", job_id>> >> ELSE <<>>)
            dests_display == format_dests(map_store.destinations, sheet)
        IN  IF dests_display = <<>> THEN NoMessage
            ELSE IF context_parts # <<>>
                 THEN <<"Store ", get_store_num(store_id), " (">>
                      \o JoinComma(context_parts)
                      \o <<")", " has other content appearing in: ">>
                      \o dests_display
                 ELSE <<"Store ", get_store_num(store_id),
                        " has other content appearing in: ">>
                      \o dests_display

\* Python's str order on two messages, token by token
RECURSIVE LexLess(_, _)
LexLess(a, b) ==
    IF b = <<>> THEN FALSE
    ELSE IF a = <<>> THEN TRUE
    ELSE IF Head(a) = Head(b) THEN LexLess(Tail(a), Tail(b))
    ELSE StrLess(Head(a), Head(b))
RECURSIVE SortedListDescending(_)
\* the messages from the greatest down
SortedListDescending(S) ==
    IF S = {} THEN <<>>
    ELSE LET greatest == CHOOSE m \in S : \A n \in S \ {m} : LexLess(n, m)
         IN  <<greatest>> \o SortedListDescending(S \ {greatest})
RECURSIVE SortedList(_)
\* sorted(list(messages_to_build))
SortedList(S) ==
    IF S = {} THEN <<>>
    ELSE LET least == CHOOSE m \in S : \A n \in S \ {m} : LexLess(m, n)
         IN  <<least>> \o SortedList(S \ {least})
_build_fragmentation_lines(entities_to_report, report_map, sheet) ==
    LET messages_to_build ==
            { MessageOf(e, report_map, sheet) : e \in entities_to_report }
              \ {NoMessage}
    IN  SortedList(messages_to_build)

\* lines 164, 177-204: the loop over entities_to_report in one iteration
\* order of the set, adding each entity's message to messages_to_build
RECURSIVE CollectMessages(_, _, _, _)
CollectMessages(order, report_map, sheet, messages_to_build) ==
    IF order = <<>> THEN messages_to_build
    ELSE LET msg == MessageOf(Head(order), report_map, sheet)
         IN  CollectMessages(Tail(order), report_map, sheet,
                 IF msg = NoMessage THEN messages_to_build
                 ELSE messages_to_build \cup {msg})
\* _build_fragmentation_lines when the set is iterated in the given order
BuildInOrder(order, report_map, sheet) ==
    SortedList(CollectMessages(order, report_map, sheet, {}))
\* the orders in which a Python set of entities may be iterated
IterationOrders(S) ==
    { q \in [1..Cardinality(S) -> S] :
        \A i, j \in 1..Cardinality(S) : i # j => q[i] # q[j] }

\* ------------------------------------------------------------------------
\* Inputs: the sheet (df_sheet), the fragmentation map, the text measure
\* ------------------------------------------------------------------------
Stores == {"100", "200"}
Orders == {"1", "2"}
Jobs == {"1", "2"}
Row(s, o, j, q) == [store |-> s, order |-> o, job |-> j, qty |-> q]
\* rows that vary in all three keys, and rows that vary in the quantity cell
\* (missing, whole, fractional)
LayoutRows == { Row(s, o, j, "1") : s \in Stores, o \in Orders, j \in Jobs }
QtyRows == { Row(s, "1", "1", q) : s \in Stores, q \in {"nan", "1", "2.5"} }
\* the three rows of the end-to-end scenario
ScenarioRows ==
    << Row("100", "1", "1", "5"), Row("100", "1", "2", "3"),
       Row("200", "2", "3", "7") >>

\* line 297: sort_values(by=[base job, cost center, order number]), on the
\* columns as strings
KeyLeq(a, b) ==
    \/ StrLess(a.job, b.job)
    \/ a.job = b.job /\ StrLess(a.store, b.store)
    \/ a.job = b.job /\ a.store = b.store /\ ~StrLess(b.order, a.order)
IsSortedSheet(rs) == \A i \in 1..(Len(rs) - 1) : KeyLeq(rs[i], rs[i + 1])
SheetsOver(R) ==
    { rs \in UNION { [1..n -> R] : n \in 1..MaxRows } : IsSortedSheet(rs) }
InputSheets == SheetsOver(LayoutRows) \cup SheetsOver(QtyRows) \cup {ScenarioRows}

EmptyDict == [k \in {} |-> FALSE]
StoreEntry(frag, dests, orders) ==
    [is_fragmented |-> frag, destinations |-> dests, fragmented_orders |-> orders]
OrderEntry(frag, jobs) == [is_fragmented |-> frag, fragmented_jobs |-> jobs]
\* the maps of the pagination runs: no entry; store 100 fragmented (one
\* message per box); both stores fragmented with order 1 and its job 1
\* flagged (up to two messages per box)
MapChoices ==
    { EmptyDict,
      [s \in {"100"} |-> StoreEntry(TRUE, <<"SheetB">>, EmptyDict)],
      [s \in {"100", "200"} |->
          StoreEntry(TRUE, <<"SheetC", "SheetA", "SheetB">>,
              [o \in {"1"} |->
                  OrderEntry(TRUE, [j \in {"1"} |-> [is_fragmented |-> TRUE]])])] }
\* simpleSplit(line, font, size, width): the number of wrapped lines of a
\* message is decided by the text measure
WrapChoices == {1, 2}

\* ------------------------------------------------------------------------
\* Inputs: the workbook (xls), a sequence of sheets
\* ------------------------------------------------------------------------
RequiredColumns == {"store", "order", "job"}
NoRow == 0 - 1
\* a sheet as the sheet loop meets it: whether xls.parse succeeds, the
\* required columns it has, whether astype / sort_values succeed, its rows
\* in file order, and the row (0-based) whose drawing raises, if any
SheetOf(rows) ==
    [parses |-> TRUE, columns |-> RequiredColumns, sortable |-> TRUE,
     raises_at |-> NoRow, rows |-> rows]
OneRow == Row("100", "1", "1", "1")
WellFormedSheets ==
    { SheetOf(<<OneRow>>),
      SheetOf(<<OneRow, OneRow>>),
      SheetOf(<<Row("100", "1", "2", "1"), OneRow>>),
      SheetOf(<<OneRow, Row("100", "2", "1", "1")>>),
      SheetOf(<<Row("200", "1", "1", "1"), OneRow>>) }
UnparsableSheet == [SheetOf(<<>>) EXCEPT !.parses = FALSE]
EmptySheet == SheetOf(<<>>)
MissingColumnSheets ==
    { [SheetOf(<<OneRow, OneRow>>) EXCEPT !.columns = RequiredColumns \ {col}] :
        col \in RequiredColumns }
UnsortableSheet == [SheetOf(<<OneRow>>) EXCEPT !.sortable = FALSE]
RaisingSheet == [SheetOf(<<OneRow, OneRow>>) EXCEPT !.raises_at = 1]
SheetChoices ==
    WellFormedSheets \cup MissingColumnSheets
      \cup {UnparsableSheet, EmptySheet, UnsortableSheet, RaisingSheet}
Workbooks == UNION { [1..n -> SheetChoices] : n \in 1..MaxSheets }

\* line 297: sort_values(by=[base job, cost center, order number])
RECURSIVE InsertByKey(_, _)
InsertByKey(sorted, r) ==
    IF sorted = <<>> THEN <<r>>
    ELSE IF KeyLeq(Head(sorted), r)
         THEN <<Head(sorted)>> \o InsertByKey(Tail(sorted), r)
         ELSE <<r>> \o sorted
RECURSIVE sort_values(_)
sort_values(rows) ==
    IF rows = <<>> THEN <<>>
    ELSE InsertByKey(sort_values(SubSeq(rows, 1, Len(rows) - 1)),
                     rows[Len(rows)])

\* ------------------------------------------------------------------------
\* Column layout planner (lines 108-149)
\* ------------------------------------------------------------------------
\* Widths are in layout units of 0.2 pt, the largest unit in which every
\* width of the planner (eighths of an inch, 0.05 inch, 5 pt) is an integer,
\* so that a width times a total width stays a small number.
LayoutUnit == inch \div 360
Width(length) == length \div LayoutUnit
\* line 108: ELEVENSEVENTEEN is 11 x 17 inch
width == Width(11 * inch)
\* line 109
frame_padding == Width(inch \div 20)
DefaultPrintableWidth == width - 2 * Width(margin)
ColumnNames == {"Job", "Order", "Store", "Product", "Qty", "SKU", "Desc"}
sku_col == "SKU"
desc_col == "Desc"
\* lines 117-125
DefaultWidths ==
    [c \in ColumnNames |->
        CASE c = "Job" -> Width(inch)
          [] c = "Order" -> Width((9 * inch) \div 8)
          [] c = "Store" -> Width((3 * inch) \div 4)
          [] c = "Product" -> Width((3 * inch) \div 4)
          [] c = "Qty" -> Width((5 * inch) \div 8)
          [] c = "SKU" -> Width((21 * inch) \div 8)
          [] c = "Desc" -> Width((21 * inch) \div 8)]
\* line 136: min_width = 1.5 * inch
DefaultMinWidth == Width((3 * inch) \div 2)
\* line 129
fixed_cols_width(dw) ==
    dw["Job"] + dw["Order"] + dw["Store"] + dw["Product"] + dw["Qty"]
\* the space left for the variable columns when the paddings are forgotten
AvailableIgnoringPadding(pw, dw) == pw - fixed_cols_width(dw)
\* line 130
available_table_width(pw, dw) ==
    (pw - 2 * frame_padding - 2 * Width(store_padding)) - fixed_cols_width(dw)
\* line 132
dynamic_cols_default_width(dw) == dw[sku_col] + dw[desc_col]
Max(a, b) == IF a >= b THEN a ELSE b
\* each column gives up the whole excess, whatever its share
ShrunkByWholeExcess(w, excess, total, floor) ==
    Max(floor * total, w * total - excess * total)
\* lines 141-144, times total_adj_width: max(min_width, w - excess * w / total)
ShrunkTimesTotal(w, excess, total, floor) ==
    Max(floor * total, w * total - excess * w)
\* the widths the planner is run on
SkuWidths ==
    {0, Width((3 * inch) \div 2), Width((21 * inch) \div 8), Width(4 * inch)}
DescWidths == {0, Width(2 * inch), Width((21 * inch) \div 8)}
PrintableWidths ==
    {Width(4 * inch), Width(6 * inch), Width(8 * inch), DefaultPrintableWidth}
MinWidths == {0, Width(inch), DefaultMinWidth}

\* ------------------------------------------------------------------------
\* State
\* ------------------------------------------------------------------------
VARIABLES
    height,                 \* page height (pagesize)
    df_sheet,               \* the sorted rows of the sheet
    store_report_map,       \* fragmentation_map['store_report_map']
    wrap_count,             \* wrapped lines per message
    pc,                     \* position in generate_pdf_run_list
    index,                  \* the for loop's row index (0-based)
    current_row_index,
    page_num,
    is_continuing_store_box,
    current_store, current_order, current_job,
    entities_in_current_store_box,
    store_start_y,
    y_pos,
    page_total_qty,         \* in halves
    page_has_ended,
    lines_to_draw,          \* messages of draw_message_block not yet started
    wrapped_left,           \* wrapped lines of the current message not yet drawn
    block_caller,           \* where draw_message_block returns to
    canvas,                 \* the finalized pages, each a sequence of draw ops
    page_ops,               \* the draw ops of the page being drawn
    xls,                    \* the sheets of the workbook (xls.sheet_names)
    sheet_pos,              \* the sheet the sheet loop is at (1-based, 0: none)
    documents,              \* the documents saved by c.save()
    returned,               \* the return value of generate_pdf_run_list
    default_widths,         \* column widths, in units of 1 / width_scale
    width_scale,
    printable_width,
    min_width

\* the sheet loop around the pagination of one sheet, and the column layout
workbook == <<xls, sheet_pos, documents, returned>>
layout == <<default_widths, width_scale, printable_width, min_width>>
\* what the pagination of one sheet reads and never writes
inputs == <<height, df_sheet, store_report_map, wrap_count, workbook, layout>>
keys == <<current_store, current_order, current_job>>
block == <<lines_to_draw, wrapped_left, block_caller>>
vars ==
    <<height, df_sheet, store_report_map, wrap_count, pc, index,
      current_row_index, page_num, is_continuing_store_box, current_store,
      current_order, current_job, entities_in_current_store_box,
      store_start_y, y_pos, page_total_qty, page_has_ended, lines_to_draw,
      wrapped_left, block_caller, canvas, page_ops, xls, sheet_pos,
      documents, returned, default_widths, width_scale, printable_width,
      min_width>>

\* draw ops
HeaderOp(n, by) == <<"header", n, by>>
RowOp(i, y) == <<"row", i, y, y - row_height>>
RectOp(store, top, bottom, at) == <<"rect", store, top, bottom, at>>
GapOp(kind, i, y) == <<"gap", kind, i, y>>
MsgOp(y) == <<"msg", y, y - frag_msg_line_height>>
StampOp(total) == <<"stamp", StampedTotal(total)>>

\* the layout of the shipped configuration: the default widths fit, the
\* planner leaves them alone
ShippedLayout ==
    /\ default_widths = DefaultWidths
    /\ width_scale = 1
    /\ printable_width = DefaultPrintableWidth
    /\ min_width = DefaultMinWidth
\* the pagination of one sheet taken on its own
OneSheet ==
    /\ xls = <<>>
    /\ sheet_pos = 0
    /\ documents = <<>>
    /\ returned = None

\* lines 302-310
PaginationStart ==
    /\ pc = "while"
    /\ index = 0
    /\ current_row_index = 0
    /\ page_num = 0
    /\ is_continuing_store_box = FALSE
    /\ current_store = None /\ current_order = None /\ current_job = None
    /\ entities_in_current_store_box = {}
    /\ store_start_y = NoneY
    /\ y_pos = 0
    /\ page_total_qty = 0
    /\ page_has_ended = FALSE
    /\ lines_to_draw = <<>> /\ wrapped_left = 0 /\ block_caller = None
    /\ canvas = <<>> /\ page_ops = <<>>

Init ==
    /\ height \in PageHeights
    /\ df_sheet \in InputSheets
    /\ store_report_map \in MapChoices
    /\ wrap_count \in WrapChoices
    /\ PaginationStart
    /\ OneSheet
    /\ ShippedLayout

\* ------------------------------------------------------------------------
\* Page start and the page-break callback
\* ------------------------------------------------------------------------
\* c.showPage(): the ops drawn so far become a finalized page
ShowPage(cv, ops) == IF page_num < PageCap THEN Append(cv, ops) ELSE cv
\* page_num += 1
NextPageNum(n) == IF n < PageCap THEN n + 1 ELSE n

TriggerPageBreakKeepsTotal ==
    [canvas |-> ShowPage(canvas, Append(page_ops, StampOp(page_total_qty))),
     page_ops |-> << HeaderOp(NextPageNum(page_num), "callback") >>,
     page_num |-> NextPageNum(page_num),
     page_total_qty |-> page_total_qty,
     y_pos |-> TableHeaderBottom(height)]
TriggerPageBreakNoStamp ==
    [canvas |-> ShowPage(canvas, page_ops),
     page_ops |-> << HeaderOp(NextPageNum(page_num), "callback") >>,
     page_num |-> NextPageNum(page_num),
     page_total_qty |-> 0,
     y_pos |-> TableHeaderBottom(height)]
\* lines 390-406: stamp the total, finalize the page, draw the headers of a
\* new page, reset the total; returns the cursor of draw_new_page_headers
trigger_page_break_for_messages ==
    [canvas |-> ShowPage(canvas, Append(page_ops, StampOp(page_total_qty))),
     page_ops |-> << HeaderOp(NextPageNum(page_num), "callback") >>,
     page_num |-> NextPageNum(page_num),
     page_total_qty |-> 0,
     y_pos |-> TableHeaderBottom(height)]
NoPageBreak ==
    [canvas |-> canvas, page_ops |-> page_ops, page_num |-> page_num,
     page_total_qty |-> page_total_qty, y_pos |-> y_pos]
\* the cursor itself is compared with the bottom margin
LineBelowMargin(y) == y < page_bottom_margin_y
\* lines 224 and 236: a message line that does not fit above the bottom
\* margin calls the callback first
LineNeedsBreak(y) == y - frag_msg_line_height < page_bottom_margin_y
AfterLineCheck ==
    IF LineNeedsBreak(y_pos) THEN trigger_page_break_for_messages
    ELSE NoPageBreak

\* lines 408-432
StartPage ==
    /\ pc = "while"
    /\ current_row_index < Len(df_sheet)
    /\ page_num' = NextPageNum(page_num)
    /\ page_ops' = Append(page_ops, HeaderOp(NextPageNum(page_num), "loop"))
    /\ page_total_qty' = 0
    /\ LET y0 == TableHeaderBottom(height) - header_gap
       IN  IF is_continuing_store_box
           THEN store_start_y' = y0 /\ y_pos' = y0 - store_padding
           ELSE store_start_y' = store_start_y /\ y_pos' = y0
    /\ is_continuing_store_box' = FALSE
    /\ page_has_ended' = FALSE
    /\ index' = current_row_index
    /\ pc' = "for"
    /\ UNCHANGED <<inputs, current_row_index, keys,
                   entities_in_current_store_box, block, canvas>>

\* line 408 false: the sheet is paginated
ExitLoop ==
    /\ pc = "while"
    /\ current_row_index >= Len(df_sheet)
    /\ pc' = "done"
    /\ UNCHANGED <<inputs, index, current_row_index, page_num,
                   is_continuing_store_box, keys,
                   entities_in_current_store_box, store_start_y, y_pos,
                   page_total_qty, page_has_ended, block, canvas, page_ops>>

\* ------------------------------------------------------------------------
\* The row loop of one page (lines 435-590)
\* ------------------------------------------------------------------------
row == df_sheet[index + 1]
AtRow == pc = "for" /\ index < Len(df_sheet)

\* line 435: range exhausted
ForExhausted ==
    /\ pc = "for"
    /\ index >= Len(df_sheet)
    /\ pc' = "end_of_page"
    /\ UNCHANGED <<inputs, index, current_row_index, page_num,
                   is_continuing_store_box, keys,
                   entities_in_current_store_box, store_start_y, y_pos,
                   page_total_qty, page_has_ended, block, canvas, page_ops>>

\* the first group is opened below a store gap
OpenFirstGroupBelowGap ==
    /\ AtRow
    /\ current_store = None
    /\ current_store' = row.store
    /\ current_order' = row.order
    /\ current_job' = row.job
    /\ store_start_y' = y_pos - store_gap
    /\ y_pos' = y_pos - store_gap - store_padding
    /\ UNCHANGED <<inputs, pc, index, current_row_index, page_num,
                   is_continuing_store_box, entities_in_current_store_box,
                   page_total_qty, page_has_ended, block, canvas, page_ops>>
\* lines 442-445
OpenFirstGroup ==
    /\ AtRow
    /\ current_store = None
    /\ current_store' = row.store
    /\ current_order' = row.order
    /\ current_job' = row.job
    /\ store_start_y' = y_pos
    /\ y_pos' = y_pos - store_padding
    /\ UNCHANGED <<inputs, pc, index, current_row_index, page_num,
                   is_continuing_store_box, entities_in_current_store_box,
                   page_total_qty, page_has_ended, block, canvas, page_ops>>

\* draw_message_block lines 214-221: nothing to draw returns at once
BlockEntryY(lines, y) == IF lines = <<>> THEN y ELSE y - message_block_offset

\* the annotator is not run
NoLines == <<>>
\* lines 458 and 609: the annotator run on the entity set of the open box
LinesOfOpenBox ==
    _build_fragmentation_lines(entities_in_current_store_box,
                               store_report_map, sheet_name)
\* lines 452-465: the store changed; close the previous box, build its
\* messages and enter draw_message_block
NewStoreClose ==
    /\ AtRow
    /\ current_store # None
    /\ row.store # current_store
    /\ LET y1 == y_pos - store_padding
           lines == LinesOfOpenBox
       IN  /\ page_ops' = Append(page_ops,
                                 RectOp(current_store, store_start_y, y1, "store"))
           /\ y_pos' = BlockEntryY(lines, y1)
           /\ lines_to_draw' = lines
    /\ wrapped_left' = 0
    /\ block_caller' = "store_gap"
    /\ pc' = "msg"
    /\ UNCHANGED <<inputs, index, current_row_index, page_num,
                   is_continuing_store_box, keys,
                   entities_in_current_store_box, store_start_y,
                   page_total_qty, page_has_ended, canvas>>

\* lines 223-233: next message; page break check, then simpleSplit
NextMessage ==
    /\ pc = "msg"
    /\ wrapped_left = 0
    /\ lines_to_draw # <<>>
    /\ LET s == AfterLineCheck
       IN  /\ canvas' = s.canvas
           /\ page_ops' = s.page_ops
           /\ page_num' = s.page_num
           /\ page_total_qty' = s.page_total_qty
           /\ y_pos' = s.y_pos
    /\ wrapped_left' = wrap_count
    /\ lines_to_draw' = Tail(lines_to_draw)
    /\ UNCHANGED <<inputs, pc, index, current_row_index,
                   is_continuing_store_box, keys,
                   entities_in_current_store_box, store_start_y,
                   page_has_ended, block_caller>>

\* lines 235-245: one wrapped line; page break check, then drawString
DrawWrappedLine ==
    /\ pc = "msg"
    /\ wrapped_left > 0
    /\ LET s == AfterLineCheck
       IN  /\ canvas' = s.canvas
           /\ page_ops' = Append(s.page_ops, MsgOp(s.y_pos))
           /\ page_num' = s.page_num
           /\ page_total_qty' = s.page_total_qty
           /\ y_pos' = s.y_pos - frag_msg_line_height
    /\ wrapped_left' = wrapped_left - 1
    /\ UNCHANGED <<inputs, pc, index, current_row_index,
                   is_continuing_store_box, keys,
                   entities_in_current_store_box, store_start_y,
                   page_has_ended, lines_to_draw, block_caller>>

\* line 249 (and line 215): draw_message_block returns to its caller
BlockReturn ==
    /\ pc = "msg"
    /\ wrapped_left = 0
    /\ lines_to_draw = <<>>
    /\ pc' = block_caller
    /\ block_caller' = None
    /\ UNCHANGED <<inputs, index, current_row_index, page_num,
                   is_continuing_store_box, keys,
                   entities_in_current_store_box, store_start_y, y_pos,
                   page_total_qty, page_has_ended, lines_to_draw,
                   wrapped_left, canvas, page_ops>>

\* lines 469, 487, 502, 518: the row index a deferred row resumes from
DeferAtNext(i) == i + 1
DeferAt(i) == i

\* a transition whose gap would cross the bottom content boundary
GapCrosses(y, gap) == y - gap < page_bottom_content_area_y

\* lines 468-472
StoreGapDeferred ==
    /\ pc = "store_gap"
    /\ GapCrosses(y_pos, store_gap)
    /\ current_row_index' = DeferAt(index)
    /\ page_has_ended' = TRUE
    /\ is_continuing_store_box' = FALSE
    /\ pc' = "end_of_page"
    /\ UNCHANGED <<inputs, index, page_num, keys,
                   entities_in_current_store_box, store_start_y, y_pos,
                   page_total_qty, block, canvas, page_ops>>

\* lines 474-482
StoreGapDrawn ==
    /\ pc = "store_gap"
    /\ ~GapCrosses(y_pos, store_gap)
    /\ page_ops' = Append(page_ops, GapOp("store", index, y_pos))
    /\ current_store' = row.store
    /\ current_order' = row.order
    /\ current_job' = row.job
    /\ store_start_y' = y_pos - store_gap
    /\ y_pos' = y_pos - store_gap - store_padding
    /\ entities_in_current_store_box' = {}
    /\ pc' = "row_check"
    /\ UNCHANGED <<inputs, index, current_row_index, page_num,
                   is_continuing_store_box, page_total_qty, page_has_ended,
                   block, canvas>>

\* the order is compared whatever the store comparison gave
NewOrderWhateverStore == AtRow /\ current_store # None
                         /\ row.order # current_order
\* line 485, reached when line 452 was false
NewOrder == AtRow /\ current_store # None /\ row.store = current_store
            /\ row.order # current_order
\* lines 485-490
NewOrderDeferred ==
    /\ NewOrder
    /\ GapCrosses(y_pos, order_gap)
    /\ current_row_index' = DeferAt(index)
    /\ page_has_ended' = TRUE
    /\ is_continuing_store_box' = TRUE
    /\ pc' = "end_of_page"
    /\ UNCHANGED <<inputs, index, page_num, keys,
                   entities_in_current_store_box, store_start_y, y_pos,
                   page_total_qty, block, canvas, page_ops>>

\* lines 492-497
NewOrderDrawn ==
    /\ NewOrder
    /\ ~GapCrosses(y_pos, order_gap)
    /\ page_ops' = Append(page_ops, GapOp("order", index, y_pos))
    /\ y_pos' = y_pos - order_gap
    /\ current_order' = row.order
    /\ current_job' = row.job
    /\ pc' = "row_check"
    /\ UNCHANGED <<inputs, index, current_row_index, page_num,
                   is_continuing_store_box, current_store,
                   entities_in_current_store_box, store_start_y,
                   page_total_qty, page_has_ended, block, canvas>>

NewJob == AtRow /\ current_store # None /\ row.store = current_store
          /\ row.order = current_order /\ row.job # current_job
\* lines 500-505
NewJobDeferred ==
    /\ NewJob
    /\ GapCrosses(y_pos, job_gap)
    /\ current_row_index' = DeferAt(index)
    /\ page_has_ended' = TRUE
    /\ is_continuing_store_box' = TRUE
    /\ pc' = "end_of_page"
    /\ UNCHANGED <<inputs, index, page_num, keys,
                   entities_in_current_store_box, store_start_y, y_pos,
                   page_total_qty, block, canvas, page_ops>>

\* the job gap is drawn and the current job is left as it was
NewJobDrawnKeepingJob ==
    /\ NewJob
    /\ ~GapCrosses(y_pos, job_gap)
    /\ page_ops' = Append(page_ops, GapOp("job", index, y_pos))
    /\ y_pos' = y_pos - job_gap
    /\ pc' = "row_check"
    /\ UNCHANGED <<inputs, index, current_row_index, page_num,
                   is_continuing_store_box, keys,
                   entities_in_current_store_box, store_start_y,
                   page_total_qty, page_has_ended, block, canvas>>
\* lines 507-512
NewJobDrawn ==
    /\ NewJob
    /\ ~GapCrosses(y_pos, job_gap)
    /\ page_ops' = Append(page_ops, GapOp("job", index, y_pos))
    /\ y_pos' = y_pos - job_gap
    /\ current_job' = row.job
    /\ pc' = "row_check"
    /\ UNCHANGED <<inputs, index, current_row_index, page_num,
                   is_continuing_store_box, current_store, current_order,
                   entities_in_current_store_box, store_start_y,
                   page_total_qty, page_has_ended, block, canvas>>

\* lines 452, 485, 500 all false: the row belongs to the current group
SameGroup ==
    /\ AtRow
    /\ current_store # None
    /\ row.store = current_store
    /\ row.order = current_order
    /\ row.job = current_job
    /\ pc' = "row_check"
    /\ UNCHANGED <<inputs, index, current_row_index, page_num,
                   is_continuing_store_box, keys,
                   entities_in_current_store_box, store_start_y, y_pos,
                   page_total_qty, page_has_ended, block, canvas, page_ops>>

RowCrossesMargin(y) == y - row_height < page_bottom_margin_y
\* line 517
RowCrosses(y) == y - row_height < page_bottom_content_area_y

\* lines 517-521
RowDeferred ==
    /\ pc = "row_check"
    /\ RowCrosses(y_pos)
    /\ current_row_index' = DeferAt(index)
    /\ page_has_ended' = TRUE
    /\ is_continuing_store_box' = TRUE
    /\ pc' = "end_of_page"
    /\ UNCHANGED <<inputs, index, page_num, keys,
                   entities_in_current_store_box, store_start_y, y_pos,
                   page_total_qty, block, canvas, page_ops>>

\* line 540: the except branch, the entity is not logged
NotLogged(entities, r) == entities
\* lines 533-539
LoggedEntities(entities, r) == entities \cup {<<r.store, r.order, r.job>>}
\* lines 526-590
\* the drawing of row i of the sheet at hand raises (lines 526-590 are in
\* no try of their own)
DrawingRaises(i) ==
    /\ sheet_pos \in 1..Len(xls)
    /\ xls[sheet_pos].raises_at = i
DrawRow ==
    /\ pc = "row_check"
    /\ ~RowCrosses(y_pos)
    /\ ~DrawingRaises(index)
    /\ page_ops' = Append(page_ops, RowOp(index, y_pos))
    /\ entities_in_current_store_box' =
           LoggedEntities(entities_in_current_store_box, row)
    /\ page_total_qty' = page_total_qty + QtyOfRow(row)
    /\ y_pos' = y_pos - row_height
    /\ index' = index + 1
    /\ pc' = "for"
    /\ UNCHANGED <<inputs, current_row_index, page_num,
                   is_continuing_store_box, keys, store_start_y,
                   page_has_ended, block, canvas>>

\* ------------------------------------------------------------------------
\* End of page (lines 598-629)
\* ------------------------------------------------------------------------
\* lines 598-605 with page_has_ended: the box of the last item, no messages
EndOfPageDeferred ==
    /\ pc = "end_of_page"
    /\ page_has_ended
    /\ page_ops' = Append(page_ops,
           RectOp(current_store, store_start_y, y_pos - store_padding, "end"))
    /\ y_pos' = y_pos - store_padding
    /\ pc' = "stamp"
    /\ UNCHANGED <<inputs, index, current_row_index, page_num,
                   is_continuing_store_box, keys,
                   entities_in_current_store_box, store_start_y,
                   page_total_qty, page_has_ended, block, canvas>>

\* lines 598-615 without page_has_ended: the box of the last item, then the
\* messages of the last box
EndOfPageLast ==
    /\ pc = "end_of_page"
    /\ ~page_has_ended
    /\ current_row_index' = Len(df_sheet)
    /\ LET y1 == y_pos - store_padding
           lines == LinesOfOpenBox
       IN  /\ page_ops' = Append(page_ops,
                                 RectOp(current_store, store_start_y, y1, "end"))
           /\ y_pos' = BlockEntryY(lines, y1)
           /\ lines_to_draw' = lines
    /\ wrapped_left' = 0
    /\ block_caller' = "stamp"
    /\ pc' = "msg"
    /\ UNCHANGED <<inputs, index, page_num, is_continuing_store_box, keys,
                   entities_in_current_store_box, store_start_y,
                   page_total_qty, page_has_ended, canvas>>

\* lines 620-629: stamp the page total, c.showPage()
StampAndShowPage ==
    /\ pc = "stamp"
    /\ canvas' = ShowPage(canvas, Append(page_ops, StampOp(page_total_qty)))
    /\ page_ops' = <<>>
    /\ pc' = "while"
    /\ UNCHANGED <<inputs, index, current_row_index, page_num,
                   is_continuing_store_box, keys,
                   entities_in_current_store_box, store_start_y, y_pos,
                   page_total_qty, page_has_ended, block>>

Next ==
    \/ StartPage
    \/ ExitLoop
    \/ ForExhausted
    \/ OpenFirstGroup
    \/ NewStoreClose
    \/ NextMessage
    \/ DrawWrappedLine
    \/ BlockReturn
    \/ StoreGapDeferred
    \/ StoreGapDrawn
    \/ NewOrderDeferred
    \/ NewOrderDrawn
    \/ NewJobDeferred
    \/ NewJobDrawn
    \/ SameGroup
    \/ RowDeferred
    \/ DrawRow
    \/ EndOfPageDeferred
    \/ EndOfPageLast
    \/ StampAndShowPage

Spec == Init /\ [][Next]_vars
\* The loop is sequential code: an enabled step is taken.  The runs of the
\* sheets of at most two rows, to completion.
ShortSheetInit == Init /\ Len(df_sheet) <= 2
FairSpec == ShortSheetInit /\ [][Next]_vars /\ WF_vars(Next)

\* ------------------------------------------------------------------------
\* The annotator on its own: _build_fragmentation_lines over the entity set
\* of one store box and a fragmentation map
\* ------------------------------------------------------------------------
AnnotStores == {"100", "300-B"}
\* the (store, order, job) triples collected while drawing one store's box
EntitySets ==
    UNION { (SUBSET ({s} \X Orders \X Jobs)) \ {{}} : s \in AnnotStores }
DestChoices ==
    { <<>>, <<"SheetA">>, <<"SheetB">>, <<"SheetC", "SheetA", "SheetB">> }
\* fragmented_jobs: no entry, or an entry for job 1 keyed is_fragmented
\* (set or cleared), or an entry keyed as line 191 reads it
JobMaps ==
    { EmptyDict,
      [j \in {"1"} |-> [is_fragmented |-> TRUE]],
      [j \in {"1"} |-> [is_fragmented |-> FALSE]],
      [j \in {"1"} |-> [is_fragmentED |-> TRUE]] }
OrderMaps ==
    {EmptyDict}
    \cup { [o \in {"1"} |-> OrderEntry(f, jobs)] : f \in BOOLEAN, jobs \in JobMaps }
StoreEntries ==
    { StoreEntry(f, dests, orders) :
        f \in BOOLEAN, dests \in DestChoices, orders \in OrderMaps }
AnnotMaps ==
    {EmptyDict}
    \cup UNION { { [s \in D |-> e] : e \in StoreEntries } :
                   D \in (SUBSET AnnotStores) \ {{}} }

AnnotInit ==
    /\ height = HeightWithRoom(RoomTwoBoxes)
    /\ df_sheet = <<>>
    /\ store_report_map \in AnnotMaps
    /\ wrap_count = 1
    /\ pc = "annotate"
    /\ index = 0
    /\ current_row_index = 0
    /\ page_num = 0
    /\ is_continuing_store_box = FALSE
    /\ current_store = None /\ current_order = None /\ current_job = None
    /\ entities_in_current_store_box \in EntitySets
    /\ store_start_y = NoneY
    /\ y_pos = 0
    /\ page_total_qty = 0
    /\ page_has_ended = FALSE
    /\ lines_to_draw = <<>> /\ wrapped_left = 0 /\ block_caller = None
    /\ canvas = <<>> /\ page_ops = <<>>
    /\ OneSheet
    /\ ShippedLayout

\* line 459 (and 609): lines_to_draw = _build_fragmentation_lines(...)
Annotate ==
    /\ pc = "annotate"
    /\ lines_to_draw' =
           _build_fragmentation_lines(entities_in_current_store_box,
                                      store_report_map, sheet_name)
    /\ pc' = "annotated"
    /\ UNCHANGED <<inputs, index, current_row_index, page_num,
                   is_continuing_store_box, keys,
                   entities_in_current_store_box, store_start_y, y_pos,
                   page_total_qty, page_has_ended, wrapped_left,
                   block_caller, canvas, page_ops>>

AnnotNext == Annotate
AnnotSpec == AnnotInit /\ [][AnnotNext]_vars

\* ------------------------------------------------------------------------
\* The column layout planner on its own (lines 127-149), over default
\* widths of the two variable columns, printable widths and minimum widths
\* ------------------------------------------------------------------------
PlannerInit ==
    /\ default_widths \in
           { [DefaultWidths EXCEPT ![sku_col] = s, ![desc_col] = d] :
               s \in SkuWidths, d \in DescWidths }
    /\ width_scale = 1
    /\ printable_width \in PrintableWidths
    /\ min_width \in MinWidths
    /\ pc = "plan"
    /\ height = HeightWithRoom(RoomTwoBoxes)
    /\ df_sheet = <<>>
    /\ store_report_map = EmptyDict
    /\ wrap_count = 1
    /\ index = 0
    /\ current_row_index = 0
    /\ page_num = 0
    /\ is_continuing_store_box = FALSE
    /\ current_store = None /\ current_order = None /\ current_job = None
    /\ entities_in_current_store_box = {}
    /\ store_start_y = NoneY
    /\ y_pos = 0
    /\ page_total_qty = 0
    /\ page_has_ended = FALSE
    /\ lines_to_draw = <<>> /\ wrapped_left = 0 /\ block_caller = None
    /\ canvas = <<>> /\ page_ops = <<>>
    /\ OneSheet

PlannerFrame ==
    UNCHANGED <<height, df_sheet, store_report_map, wrap_count, workbook,
                index, current_row_index, page_num, is_continuing_store_box,
                keys, entities_in_current_store_box, store_start_y, y_pos,
                page_total_qty, page_has_ended, block, canvas, page_ops,
                printable_width, min_width>>

\* line 134 false: the default widths of the variable columns fit
KeepDefaultWidths ==
    /\ pc = "plan"
    /\ ~(dynamic_cols_default_width(default_widths) >
             available_table_width(printable_width, default_widths))
    /\ pc' = "planned"
    /\ UNCHANGED <<default_widths, width_scale>>
    /\ PlannerFrame

\* lines 134-149: both variable columns give up their share of the excess,
\* each floored at min_width.  The new widths are kept exactly, as multiples
\* of 1 / total_adj_width.
ShrinkVariableColumns ==
    /\ pc = "plan"
    /\ dynamic_cols_default_width(default_widths) >
           available_table_width(printable_width, default_widths)
    /\ LET excess == dynamic_cols_default_width(default_widths)
                       - available_table_width(printable_width, default_widths)
           current_sku_w == default_widths[sku_col]
           current_desc_w == default_widths[desc_col]
           total_adj_width == current_sku_w + current_desc_w
       IN  IF total_adj_width > 0
           THEN /\ width_scale' = total_adj_width
                /\ default_widths' =
                       [c \in ColumnNames |->
                           IF c \in {sku_col, desc_col}
                           THEN ShrunkTimesTotal(default_widths[c], excess,
                                                 total_adj_width, min_width)
                           ELSE default_widths[c] * total_adj_width]
           ELSE /\ width_scale' = 1
                /\ default_widths' =
                       [default_widths EXCEPT ![sku_col] = min_width,
                                              ![desc_col] = min_width]
    /\ pc' = "planned"
    /\ PlannerFrame

PlannerNext == KeepDefaultWidths \/ ShrinkVariableColumns
PlannerSpec == PlannerInit /\ [][PlannerNext]_vars

\* ------------------------------------------------------------------------
\* The sheet loop (lines 251-300) around the pagination, and the save
\* (lines 632-642)
\* ------------------------------------------------------------------------
WorkbookInit ==
    /\ xls \in Workbooks
    /\ sheet_pos = 0
    /\ documents = <<>>
    /\ returned = None
    /\ pc = "sheet"
    /\ height \in PageHeights
    /\ df_sheet = <<>>
    /\ store_report_map \in MapChoices
    /\ wrap_count \in WrapChoices
    /\ index = 0
    /\ current_row_index = 0
    /\ page_num = 0
    /\ is_continuing_store_box = FALSE
    /\ current_store = None /\ current_order = None /\ current_job = None
    /\ entities_in_current_store_box = {}
    /\ store_start_y = NoneY
    /\ y_pos = 0
    /\ page_total_qty = 0
    /\ page_has_ended = FALSE
    /\ lines_to_draw = <<>> /\ wrapped_left = 0 /\ block_caller = None
    /\ canvas = <<>> /\ page_ops = <<>>
    /\ ShippedLayout

\* line 255: the for loop is at its head, before the first sheet or after
\* the pagination loop of the previous one
AtSheetLoop == pc \in {"sheet", "done"}
NextSheet == xls[sheet_pos + 1]
\* only the store column is looked for
MissingStoreColumn(sheet) == "store" \notin sheet.columns
\* lines 288-290
MissingRequiredColumn(sheet) == sheet.columns # RequiredColumns
\* what a continue of the sheet loop leaves alone
SheetSkipped ==
    /\ sheet_pos' = sheet_pos + 1
    /\ pc' = "sheet"
    /\ UNCHANGED <<height, store_report_map, wrap_count, xls, documents,
                   returned, layout, index, current_row_index, page_num,
                   is_continuing_store_box, keys,
                   entities_in_current_store_box, store_start_y, y_pos,
                   page_total_qty, page_has_ended, block, canvas, page_ops>>

\* lines 256-257: xls.parse raises, continue
SkipUnparsable ==
    /\ AtSheetLoop
    /\ sheet_pos < Len(xls)
    /\ ~NextSheet.parses
    /\ UNCHANGED df_sheet
    /\ SheetSkipped

\* an empty sheet ends the run with return False
EmptySheetReturnsFalse ==
    /\ AtSheetLoop
    /\ sheet_pos < Len(xls)
    /\ NextSheet.parses
    /\ NextSheet.rows = <<>>
    /\ returned' = FALSE
    /\ pc' = "returned"
    /\ UNCHANGED <<height, df_sheet, store_report_map, wrap_count, xls,
                   sheet_pos, documents, layout, index, current_row_index,
                   page_num, is_continuing_store_box, keys,
                   entities_in_current_store_box, store_start_y, y_pos,
                   page_total_qty, page_has_ended, block, canvas, page_ops>>
\* line 258: if df_sheet.empty: continue
SkipEmpty ==
    /\ AtSheetLoop
    /\ sheet_pos < Len(xls)
    /\ NextSheet.parses
    /\ NextSheet.rows = <<>>
    /\ df_sheet' = NextSheet.rows
    /\ SheetSkipped

\* lines 288-290: a required column is missing, continue
SkipMissingColumn ==
    /\ AtSheetLoop
    /\ sheet_pos < Len(xls)
    /\ NextSheet.parses
    /\ NextSheet.rows # <<>>
    /\ MissingRequiredColumn(NextSheet)
    /\ df_sheet' = NextSheet.rows
    /\ SheetSkipped

\* lines 292-300: astype or sort_values raises, continue
SkipUnsortable ==
    /\ AtSheetLoop
    /\ sheet_pos < Len(xls)
    /\ NextSheet.parses
    /\ NextSheet.rows # <<>>
    /\ ~MissingRequiredColumn(NextSheet)
    /\ ~NextSheet.sortable
    /\ df_sheet' = NextSheet.rows
    /\ SheetSkipped

\* lines 256-310: the sheet is parsed, sorted, and the pagination state is
\* initialised; the canvas is the one of the sheets before
\* the keys of the sheet before are kept
KeptKeys == <<current_store, current_order, current_job>>
\* line 308: current_store, current_order, current_job = None, None, None
FreshKeys == <<None, None, None>>
BeginSheet ==
    /\ AtSheetLoop
    /\ sheet_pos < Len(xls)
    /\ NextSheet.parses
    /\ NextSheet.rows # <<>>
    /\ ~MissingRequiredColumn(NextSheet)
    /\ NextSheet.sortable
    /\ df_sheet' = sort_values(NextSheet.rows)
    /\ sheet_pos' = sheet_pos + 1
    /\ current_row_index' = 0
    /\ page_num' = 0
    /\ is_continuing_store_box' = FALSE
    /\ current_store' = FreshKeys[1]
    /\ current_order' = FreshKeys[2]
    /\ current_job' = FreshKeys[3]
    /\ entities_in_current_store_box' = {}
    /\ store_start_y' = NoneY
    /\ pc' = "while"
    /\ UNCHANGED <<height, store_report_map, wrap_count, xls, documents,
                   returned, layout, index, y_pos, page_total_qty,
                   page_has_ended, block, canvas, page_ops>>

\* an exception in the drawing of a row reaches the except of line 640:
\* return False, nothing is saved
RowDrawingRaises ==
    /\ pc = "row_check"
    /\ ~RowCrosses(y_pos)
    /\ DrawingRaises(index)
    /\ returned' = FALSE
    /\ pc' = "returned"
    /\ UNCHANGED <<height, df_sheet, store_report_map, wrap_count, xls,
                   sheet_pos, documents, layout, index, current_row_index,
                   page_num, is_continuing_store_box, keys,
                   entities_in_current_store_box, store_start_y, y_pos,
                   page_total_qty, page_has_ended, block, canvas, page_ops>>

WorkbookEndFrame ==
    UNCHANGED <<height, df_sheet, store_report_map, wrap_count, xls,
                sheet_pos, layout, index, current_row_index, page_num,
                is_continuing_store_box, keys,
                entities_in_current_store_box, store_start_y, y_pos,
                page_total_qty, page_has_ended, block, canvas, page_ops>>

\* lines 632-635: c.getPageNumber() == 0, return False.  What getPageNumber
\* gives for a canvas without a page is the rendering library's affair: on
\* such a canvas both this return and the save are possible.
ReturnNoPages ==
    /\ AtSheetLoop
    /\ sheet_pos = Len(xls)
    /\ canvas = <<>>
    /\ returned' = FALSE
    /\ pc' = "returned"
    /\ UNCHANGED documents
    /\ WorkbookEndFrame

\* lines 637-639: c.save(), return True: the one canvas of line 108, with the
\* pages of every sheet, is the document
SaveDocument ==
    /\ AtSheetLoop
    /\ sheet_pos = Len(xls)
    /\ documents' = Append(documents, canvas)
    /\ returned' = TRUE
    /\ pc' = "returned"
    /\ WorkbookEndFrame

WorkbookNext ==
    \/ SkipUnparsable
    \/ SkipEmpty
    \/ SkipMissingColumn
    \/ SkipUnsortable
    \/ BeginSheet
    \/ RowDrawingRaises
    \/ ReturnNoPages
    \/ SaveDocument
    \/ StartPage
    \/ ExitLoop
    \/ ForExhausted
    \/ OpenFirstGroup
    \/ NewStoreClose
    \/ NextMessage
    \/ DrawWrappedLine
    \/ BlockReturn
    \/ StoreGapDeferred
    \/ StoreGapDrawn
    \/ NewOrderDeferred
    \/ NewOrderDrawn
    \/ NewJobDeferred
    \/ NewJobDrawn
    \/ SameGroup
    \/ RowDeferred
    \/ DrawRow
    \/ EndOfPageDeferred
    \/ EndOfPageLast
    \/ StampAndShowPage
WorkbookSpec == WorkbookInit /\ [][WorkbookNext]_vars

\* ------------------------------------------------------------------------
\* What was drawn
\* ------------------------------------------------------------------------
\* every run that terminates produced fewer pages than the cap
PagesWithinCap == pc = "done" => page_num < PageCap

\* the finalized pages and the page being drawn
AllPages == IF page_ops = <<>> THEN canvas ELSE Append(canvas, page_ops)
OpsOf(page, kind) == SelectSeq(page, LAMBDA o : o[1] = kind)
RECURSIVE Flatten(_)
Flatten(ss) == IF ss = <<>> THEN <<>> ELSE Head(ss) \o Flatten(Tail(ss))
AllOps(kind) == OpsOf(Flatten(AllPages), kind)
RECURSIVE SumSeq(_)
SumSeq(q) == IF q = <<>> THEN 0 ELSE Head(q) + SumSeq(Tail(q))
Range(f) == { f[i] : i \in DOMAIN f }

\* the row indices drawn so far, in drawing order
DrawnIndices ==
    LET rows == AllOps("row") IN [i \in 1..Len(rows) |-> rows[i][2]]
\* the totals stamped so far, in whole units
StampedTotals ==
    LET stamps == AllOps("stamp") IN [i \in 1..Len(stamps) |-> stamps[i][2]]
\* the numeric quantities of the sheet, in halves
SheetQuantities == [i \in 1..Len(df_sheet) |-> QtyOfRow(df_sheet[i])]
RowsOnPage(page) == { o[2] : o \in Range(OpsOf(page, "row")) }
StartedByCallback(page) == page[1][1] = "header" /\ page[1][3] = "callback"
StampOfPage(page) == OpsOf(page, "stamp")[1][2]

\* ------------------------------------------------------------------------
\* C1
\* ------------------------------------------------------------------------
\* C1: the rows drawn so far are rows 0, 1, 2, ... in input order, each once
\* (a deferred row is not skipped and not drawn twice), and when pagination
\* has finished every row of the sheet has been drawn.
C1_RowsDrawnOnceInOrder ==
    LET drawn == DrawnIndices
    IN  /\ \A i \in 1..Len(drawn) : drawn[i] = i - 1
        /\ pc = "done" => Len(drawn) = Len(df_sheet)
\* a finished run in which a row was deferred at a page break and drawn on a
\* later page, with an annotator page break in between
C1_Witness ==
    /\ pc = "done"
    /\ \E p \in 2..Len(canvas) :
          /\ RowsOnPage(canvas[p]) # {}
          /\ 0 \notin RowsOnPage(canvas[p])
    /\ \E p \in 1..Len(canvas) : StartedByCallback(canvas[p])

\* ------------------------------------------------------------------------
\* C2
\* ------------------------------------------------------------------------
\* C2: pagination of a sheet terminates: every run, for every sheet and every
\* fragmentation map, eventually leaves the outer loop (no row or store
\* transition is deferred to a fresh page again and again).
C2_PaginationTerminates == <>(pc = "done")

\* ------------------------------------------------------------------------
\* C3
\* ------------------------------------------------------------------------
\* every numeric quantity of the sheet is a whole number
WholeQuantities == \A i \in 1..Len(df_sheet) : SheetQuantities[i] % 2 = 0
\* the quantity sum of the rows drawn on one page, in halves
PageQuantity(page) ==
    LET rows == OpsOf(page, "row")
    IN  SumSeq([i \in 1..Len(rows) |-> QtyOfRow(df_sheet[rows[i][2] + 1])])

C5_NoRowBelowBoundary ==
    LET rows == AllOps("row")
    IN  /\ \A i \in 1..Len(rows) : rows[i][4] >= page_bottom_content_area_y
        /\ (pc \in {"end_of_page", "stamp"} /\ page_has_ended) =>
              \A i \in 1..Len(rows) : rows[i][2] # current_row_index
\* a row that would end one unit below the boundary has been deferred, right
\* after the gap of its transition was drawn
C5_Witness ==
    /\ pc = "end_of_page"
    /\ page_has_ended
    /\ is_continuing_store_box
    /\ y_pos - row_height = page_bottom_content_area_y - 1
    /\ page_ops[Len(page_ops)][1] = "gap"

\* ------------------------------------------------------------------------
\* C6
\* ------------------------------------------------------------------------
\* the store box (maximal run of rows with the same store) of row i (0-based)
RunId(i) ==
    Cardinality({ k \in 1..i : df_sheet[k].store # df_sheet[k + 1].store })
RunsOnPage(page) == { RunId(i) : i \in RowsOnPage(page) }

\* C6: on every finalized page the store-box rectangles are one per store box
\* that has rows on the page: as many rectangles as boxes with rows there,
\* and each rectangle for a store that has a row on the page.
C6_OneRectPerBoxPerPage ==
    \A p \in 1..Len(canvas) :
        /\ Len(OpsOf(canvas[p], "rect")) = Cardinality(RunsOnPage(canvas[p]))
        /\ \A r \in Range(OpsOf(canvas[p], "rect")) :
              \E i \in RowsOnPage(canvas[p]) : df_sheet[i + 1].store = r[2]

\* ------------------------------------------------------------------------
\* C7
\* ------------------------------------------------------------------------
\* C7: the lower edge of every store-box rectangle drawn is at or above the
\* page bottom margin.
C7_NoRectBelowMargin ==
    \A i \in 1..Len(AllOps("rect")) :
        AllOps("rect")[i][4] >= page_bottom_margin_y

\* ------------------------------------------------------------------------
\* C8
\* ------------------------------------------------------------------------
\* a page of height h has room for only two rows of the scenario: rows 1 and
\* 2 with the job gap between them fit below the table header, and row 3
\* after the store gap and the padding of its box does not
RoomForTwoScenarioRows(h) ==
    /\ ContentRoom(h) >= store_padding + 2 * row_height + job_gap
    /\ ContentRoom(h) <
           2 * store_padding + 3 * row_height + job_gap + store_gap
RectStores(page) == { r[2] : r \in Range(OpsOf(page, "rect")) }

\* C8: the three scenario rows, an empty map and a page with room for only
\* two rows give exactly two pages: rows 1 and 2 with total 8 and the
\* store-100 box on page 1, row 3 with total 7 and only a store-200 box on
\* page 2.
C8_ScenarioTwoPages ==
    ( /\ pc = "done"
      /\ df_sheet = ScenarioRows
      /\ DOMAIN store_report_map = {}
      /\ RoomForTwoScenarioRows(height) )
    =>  /\ Len(canvas) = 2
        /\ RowsOnPage(canvas[1]) = {0, 1}
        /\ StampOfPage(canvas[1]) = 8
        /\ RowsOnPage(canvas[2]) = {2}
        /\ StampOfPage(canvas[2]) = 7
        /\ "100" \in RectStores(canvas[1])
        /\ RectStores(canvas[2]) = {"200"}

\* ------------------------------------------------------------------------
\* C9
\* ------------------------------------------------------------------------
\* the destinations of a store's map entry other than the current sheet
OtherDestinations(store_id) ==
    { d \in Range(store_report_map[store_id].destinations) : d # sheet_name }
\* the store has a map entry flagged fragmented that names another sheet
StoreFragmentedElsewhere(store_id) ==
    /\ DictHas(store_report_map, store_id)
    /\ store_report_map[store_id].is_fragmented
    /\ OtherDestinations(store_id) # {}
AppearingIn == " has other content appearing in: "
IsMessageFor(m, store_id) == m[1] = "Store " /\ m[2] = get_store_num(store_id)
\* the sheets a message names after "appearing in:"
DestinationsNamed(m) ==
    LET at == CHOOSE i \in 1..Len(m) : m[i] = AppearingIn
    IN  { m[i] : i \in (at + 1)..Len(m) } \ {", "}
MessagesFor(store_id) ==
    { m \in Range(lines_to_draw) : IsMessageFor(m, store_id) }

\* C9: every message the annotator emits is for the store of an entity whose
\* map entry is flagged fragmented and has a destination other than the
\* current sheet, and names that store's number and exactly its other
\* destinations; an entity whose store is not flagged, or whose destinations
\* are empty or only the current sheet, gets no message, and an entity whose
\* store is fragmented elsewhere gets one.
C9_MessageOnlyForStoreFragmentedElsewhere ==
    pc = "annotated" =>
        /\ \A m \in Range(lines_to_draw) :
              \E e \in entities_in_current_store_box :
                  /\ IsMessageFor(m, e[1])
                  /\ StoreFragmentedElsewhere(e[1])
                  /\ DestinationsNamed(m) = OtherDestinations(e[1])
        /\ \A e \in entities_in_current_store_box :
              StoreFragmentedElsewhere(e[1]) <=> MessagesFor(e[1]) # {}
\* the annotator has run on a store flagged fragmented whose only destination
\* is the current sheet and produced nothing
C9_Witness ==
    /\ pc = "annotated"
    /\ lines_to_draw = <<>>
    /\ \E e \in entities_in_current_store_box :
          /\ DictHas(store_report_map, e[1])
          /\ store_report_map[e[1]].is_fragmented
          /\ store_report_map[e[1]].destinations = <<"SheetA">>

\* ------------------------------------------------------------------------
\* C10
\* ------------------------------------------------------------------------
\* the map flags the entity's order, and its job (fragmented_jobs entry with
\* is_fragmented true)
OrderFlagged(e) ==
    LET orders == store_report_map[e[1]].fragmented_orders
    IN  DictHas(orders, e[2]) /\ orders[e[2]].is_fragmented
JobFlagged(e) ==
    /\ OrderFlagged(e)
    /\ LET jobs == store_report_map[e[1]].fragmented_orders[e[2]].fragmented_jobs
       IN  /\ DictHas(jobs, e[3])
           /\ DictHas(jobs[e[3]], "is_fragmented")
           /\ jobs[e[3]].is_fragmented
HasOrderContext(m, order_id) ==
    \E i \in 1..(Len(m) - 1) : m[i] = "Order " /\ m[i + 1] = order_id
HasJobContext(m, job_id) ==
    \E i \in 1..(Len(m) - 1) : m[i] \in {"Job ", "JOB "} /\ m[i + 1] = job_id
IsBareMessage(m) == m[3] = AppearingIn

\* C10: for an entity whose store is fragmented with another destination,
\* the annotator emits a message with the order and the job context when the
\* map flags the order and the job, with the order context when it flags the
\* order only, and the bare store message when the order is not flagged.
C10_ContextFollowsOrderAndJobFlags ==
    pc = "annotated" =>
        \A e \in entities_in_current_store_box :
            StoreFragmentedElsewhere(e[1]) =>
                \E m \in MessagesFor(e[1]) :
                    IF JobFlagged(e)
                    THEN HasOrderContext(m, e[2]) /\ HasJobContext(m, e[3])
                    ELSE IF OrderFlagged(e)
                         THEN HasOrderContext(m, e[2])
                         ELSE IsBareMessage(m)

\* ------------------------------------------------------------------------
\* C11
\* ------------------------------------------------------------------------
\* C11: the annotator's messages are in strictly ascending lexicographic
\* order, hold no message twice, and are the same sequence for every order
\* in which the entity set may be iterated.
C11_MessagesSortedDedupedOrderFree ==
    pc = "annotated" =>
        /\ \A i \in 1..(Len(lines_to_draw) - 1) :
              LexLess(lines_to_draw[i], lines_to_draw[i + 1])
        /\ \A i, j \in 1..Len(lines_to_draw) :
              i # j => lines_to_draw[i] # lines_to_draw[j]
        /\ \A order \in IterationOrders(entities_in_current_store_box) :
              BuildInOrder(order, store_report_map, sheet_name) = lines_to_draw
\* the annotator has run on four entities of which two share a message, and
\* produced three distinct messages
C11_Witness ==
    /\ pc = "annotated"
    /\ Cardinality(entities_in_current_store_box) = 4
    /\ Len(lines_to_draw) = 3

\* ------------------------------------------------------------------------
\* C12
\* ------------------------------------------------------------------------
\* the total width of the configured columns, in units of 1 / width_scale
TotalColumnWidth ==
    fixed_cols_width(default_widths)
      + dynamic_cols_default_width(default_widths)
AtFloor(c) == default_widths[c] = min_width * width_scale
\* printable width minus frame and store padding
PrintableTableWidth(pw) == pw - 2 * frame_padding - 2 * Width(store_padding)

Paginable(sheet) ==
    /\ sheet.parses
    /\ sheet.rows # <<>>
    /\ sheet.columns = RequiredColumns
    /\ sheet.sortable
PaginableUpTo(n) == Cardinality({ i \in 1..n : Paginable(xls[i]) })
\* the rows of the paginable sheets among the first n
RowsDue(n) ==
    SumSeq([i \in 1..n |-> IF Paginable(xls[i]) THEN Len(xls[i].rows) ELSE 0])
\* page_num restarts with every sheet: a page 1 started by the loop is the
\* first page of a sheet
FirstPagesOf(pages) ==
    { p \in 1..Len(pages) : pages[p][1] = HeaderOp(1, "loop") }
RowsOnCanvas == Len(OpsOf(Flatten(canvas), "row"))
\* the canvas holds the finished pages of the paginable sheets among the
\* first n, and nothing else
CanvasHoldsSheets(n) ==
    /\ page_ops = <<>>
    /\ Cardinality(FirstPagesOf(canvas)) = PaginableUpTo(n)
    /\ RowsOnCanvas = RowsDue(n)
    /\ \A p \in 1..Len(canvas) : Len(OpsOf(canvas[p], "stamp")) = 1

\* ------------------------------------------------------------------------
\* C13
\* ------------------------------------------------------------------------
LacksColumn(sheet) ==
    sheet.parses /\ sheet.rows # <<>> /\ sheet.columns # RequiredColumns

\* C13: when the sheet loop has passed a sheet that lacks a required column,
\* the canvas holds exactly the pages of the sheets before it (no page was
\* started, nothing was drawn); and when the loop has taken every sheet of a
\* workbook with such a sheet, the canvas holds the pages and all the rows
\* of every paginable sheet, those after the skipped sheet included.
C13_MissingColumnSheetSkipped ==
    /\ ( /\ pc = "sheet"
         /\ sheet_pos >= 1
         /\ LacksColumn(xls[sheet_pos]) )
       => CanvasHoldsSheets(sheet_pos - 1)
    /\ ( /\ AtSheetLoop
         /\ sheet_pos = Len(xls)
         /\ \E i \in 1..Len(xls) : LacksColumn(xls[i]) )
       => CanvasHoldsSheets(Len(xls))
\* the loop has skipped a first sheet without the order column and has
\* paginated the two-row sheet after it, on more than one page
C13_Witness ==
    /\ pc = "done"
    /\ sheet_pos = 2
    /\ Len(xls) = 2
    /\ LacksColumn(xls[1])
    /\ "order" \notin xls[1].columns
    /\ RowsOnCanvas = 2
    /\ Len(canvas) >= 2

\* ------------------------------------------------------------------------
\* C14
\* ------------------------------------------------------------------------
IsEmptySheet(sheet) == sheet.parses /\ sheet.rows = <<>>

\* C14: when the sheet loop has passed an empty sheet, the canvas holds
\* exactly the pages of the sheets before it (no page start, no stamp, no
\* page finalization for the empty sheet), and the run does not end at an
\* empty sheet: when it returns with an empty sheet left, the sheet before
\* it is one whose row drawing raised.
C14_EmptySheetSkipped ==
    /\ ( /\ pc = "sheet"
         /\ sheet_pos >= 1
         /\ IsEmptySheet(xls[sheet_pos]) )
       => /\ CanvasHoldsSheets(sheet_pos - 1)
          /\ returned = None
    /\ ( /\ pc = "returned"
         /\ sheet_pos < Len(xls) )
       => \/ ~IsEmptySheet(xls[sheet_pos + 1])
          \/ sheet_pos >= 1 /\ xls[sheet_pos].raises_at # NoRow
\* the loop has skipped an empty first sheet and has paginated the sheet
\* after it
C14_Witness ==
    /\ pc = "done"
    /\ sheet_pos = 2
    /\ Len(xls) = 2
    /\ IsEmptySheet(xls[1])
    /\ RowsOnCanvas = 2
    /\ Len(canvas) >= 1

\* ------------------------------------------------------------------------
\* C15
\* ------------------------------------------------------------------------
\* C15: a failure raised while a sheet is paginated abandons that sheet
\* only: the run returns after the sheet loop has taken every sheet, and it
\* returns False only when no sheet of the workbook could be paginated to
\* its end.
C15_FailureAbandonsOnlyItsSheet ==
    pc = "returned" =>
        /\ sheet_pos = Len(xls)
        /\ returned = FALSE =>
              \A i \in 1..Len(xls) :
                  ~(Paginable(xls[i]) /\ xls[i].raises_at = NoRow)

\* ------------------------------------------------------------------------
\* C16
\* ------------------------------------------------------------------------
\* C16: when the run has returned True for a workbook with k >= 1 paginable
\* sheets, k documents have been saved, each with the pages of one sheet.
C16_OneDocumentPerSheet ==
    ( /\ pc = "returned"
      /\ returned = TRUE
      /\ PaginableUpTo(Len(xls)) >= 1 )
    =>  /\ Len(documents) = PaginableUpTo(Len(xls))
        /\ \A d \in 1..Len(documents) :
              Cardinality(FirstPagesOf(documents[d])) = 1

\* ------------------------------------------------------------------------
\* C17
\* ------------------------------------------------------------------------
\* the outermost level at which row i differs from the row before it
GapKind(i) ==
    IF df_sheet[i + 1].store # df_sheet[i].store THEN "store"
    ELSE IF df_sheet[i + 1].order # df_sheet[i].order THEN "order"
    ELSE IF df_sheet[i + 1].job # df_sheet[i].job THEN "job"
    ELSE None
GapSize(kind) ==
    IF kind = "order" THEN order_gap ELSE IF kind = "job" THEN job_gap ELSE 0
\* the gaps drawn for row i, on whatever page
GapsAmong(gaps, i) == SelectSeq(gaps, LAMBDA g : g[3] = i)
GapsOfRow(i) == GapsAmong(AllOps("gap"), i)
RowOpsOf(page, i) == SelectSeq(page, LAMBDA o : o[1] = "row" /\ o[2] = i)

\* C17: over all the evaluations of a row at most one gap is drawn for it,
\* and it is the gap of the outermost level at which the row differs from
\* the row before it (none for the first row and for a row of the same
\* group); a row drawn on the page of the row before it, in the same store,
\* starts one gap of that level (or nothing) below it.
C17_OneOutermostTransitionPerRow ==
    LET gaps == AllOps("gap")
        pages == AllPages
    IN  /\ \A i \in 0..(Len(df_sheet) - 1) :
              LET of_row == GapsAmong(gaps, i)
              IN  /\ Len(of_row) <= 1
                  /\ \A n \in 1..Len(of_row) :
                        /\ i >= 1
                        /\ of_row[n][2] = GapKind(i)
        /\ \A p \in 1..Len(pages) : \A i \in 1..(Len(df_sheet) - 1) :
              LET this == RowOpsOf(pages[p], i)
                  before == RowOpsOf(pages[p], i - 1)
              IN  (this # <<>> /\ before # <<>> /\ GapKind(i) # "store")
                  => this[1][3] = before[1][4] - GapSize(GapKind(i))
\* a finished run that drew the order gap, and only it, for a row whose
\* order and job both differ from the row before it
C17_Witness ==
    /\ pc = "done"
    /\ \E i \in 1..(Len(df_sheet) - 1) :
          /\ df_sheet[i + 1].store = df_sheet[i].store
          /\ df_sheet[i + 1].order # df_sheet[i].order
          /\ df_sheet[i + 1].job # df_sheet[i].job
          /\ Len(GapsOfRow(i)) = 1
          /\ GapsOfRow(i)[1][2] = "order"

\* ------------------------------------------------------------------------
\* C18
\* ------------------------------------------------------------------------
KeysOf(r) == <<r.store, r.order, r.job>>
\* the page has ended on a deferral and the deferred row is not of the
\* current group: its transition was deferred (a row deferred at line 517
\* is of the current group, its transition is done or there was none)
TransitionDeferred ==
    /\ pc = "end_of_page"
    /\ page_has_ended
    /\ index < Len(df_sheet)
    /\ KeysOf(row) # <<current_store, current_order, current_job>>
LastOp(page) == page[Len(page)]

\* C18: when the page has ended because a transition was deferred, the last
\* thing drawn on the page is a row or the page header (no box close, no
\* annotation line, no gap of the transition), the deferred row is not on
\* the page, the row to resume from is that row and the current keys are
\* still those of the row drawn before it.
C18_DeferredTransitionDrawsNothing ==
    TransitionDeferred =>
        /\ LastOp(page_ops)[1] \in {"row", "header"}
        /\ RowOpsOf(page_ops, index) = <<>>
        /\ current_row_index = index
        /\ index >= 1 =>
              <<current_store, current_order, current_job>>
                  = KeysOf(df_sheet[index])

\* ------------------------------------------------------------------------
\* C19
\* ------------------------------------------------------------------------
\* the ops of a page after its last row (all of them when it has no row)
AfterLastRow(page) ==
    LET rows == { n \in 1..Len(page) : page[n][1] = "row" }
        last == IF rows = {} THEN 0
                ELSE CHOOSE n \in rows : \A k \in rows : k <= n
    IN  SubSeq(page, last + 1, Len(page))

\* the annotator has messages for the entity set of the open store box
BoxHasMessages ==
    _build_fragmentation_lines(entities_in_current_store_box,
                               store_report_map, sheet_name) # <<>>
Annotated(page) == OpsOf(AfterLastRow(page), "msg") # <<>>
\* the page ended on a deferral inside the store box: the row to resume
\* from is of the current store
BoxContinues ==
    /\ page_has_ended
    /\ current_row_index < Len(df_sheet)
    /\ df_sheet[current_row_index + 1].store = current_store

\* C19 (as stated): when a page is about to be stamped and the annotator
\* has messages for the entity set of the open store box, annotation lines
\* have been drawn on the page after its last row.
C19_EveryPageCloseAnnotates ==
    (pc = "stamp" /\ BoxHasMessages) => Annotated(page_ops)

\* C19 (amended): when a page is about to be stamped and the annotator has
\* messages for the entity set of the open store box, annotation lines have
\* been drawn after the last row of the page exactly when the box is closed
\* on this page (the rows are exhausted, or the store changes at the row to
\* resume from); a page that ends on a deferral inside the box has the
\* rectangle and no annotation line after its last row.
C19_AnnotatedWhenBoxCloses ==
    (pc = "stamp" /\ BoxHasMessages) =>
        /\ Annotated(page_ops) <=> ~BoxContinues
        /\ BoxContinues => LastOp(page_ops)[1] = "rect"
\* a page about to be stamped after a row of a flagged store was deferred:
\* the box continues, the page has its row and no annotation line
C19_Witness ==
    /\ pc = "stamp"
    /\ BoxHasMessages
    /\ BoxContinues
    /\ RowsOnPage(page_ops) # {}
    /\ ~Annotated(page_ops)

\* ------------------------------------------------------------------------
\* C20
\* ------------------------------------------------------------------------
\* lines 458 and 609: the annotator is about to be invoked
AnnotatorInvoked ==
    \/ AtRow /\ current_store # None /\ row.store # current_store
    \/ pc = "end_of_page" /\ ~page_has_ended
\* the first row of the open store box: the rows from it to the row at hand
\* are of the current store, the row before it is not
BoxStart ==
    CHOOSE j \in 0..index :
        /\ \A k \in j..(index - 1) : df_sheet[k + 1].store = current_store
        /\ j >= 1 => df_sheet[j].store # current_store
BoxRows == BoxStart..(index - 1)

\* C20: whenever the annotator is about to be invoked, the entity set is the
\* set of the (store, order, job) triples of the rows drawn since the store
\* box was opened, whatever pages they are on, and every triple in it is of
\* the current store.
C20_EntitySetIsRowsOfOpenBox ==
    AnnotatorInvoked =>
        /\ entities_in_current_store_box
               = { KeysOf(df_sheet[k + 1]) : k \in BoxRows }
        /\ \A e \in entities_in_current_store_box : e[1] = current_store
        /\ BoxRows \subseteq { o[2] : o \in Range(AllOps("row")) }
\* the store changes after a box of two rows with different triples, the
\* first of them on a page already finalized
C20_Witness ==
    /\ AtRow /\ current_store # None /\ row.store # current_store
    /\ Cardinality(entities_in_current_store_box) = 2
    /\ \E p \in 1..Len(canvas) : RowsOnPage(canvas[p]) \cap BoxRows # {}
    /\ RowsOnPage(page_ops) \cap BoxRows # {}

MsgPositions(page) == { n \in 1..Len(page) : page[n][1] = "msg" }

\* C22: every annotation line drawn is one line height high and ends at or
\* above the page bottom margin; a line drawn right after another line of
\* the page starts where that line ended; a line that is the first thing
\* drawn on a page started by the callback starts at the cursor the callback
\* returned; and while the block is drawn the cursor is the bottom of the
\* line drawn last.
C22_NoAnnotationLineBelowMargin ==
    /\ LET pages == AllPages
       IN  \A p \in 1..Len(pages) :
               LET page == pages[p]
               IN  \A n \in 1..Len(page) :
                       page[n][1] = "msg" =>
                           /\ page[n][3] = page[n][2] - frag_msg_line_height
                           /\ page[n][3] >= page_bottom_margin_y
                           /\ (n >= 2 /\ page[n - 1][1] = "msg") =>
                                 page[n][2] = page[n - 1][3]
                           /\ (n = 2 /\ StartedByCallback(page)) =>
                                 page[n][2] = TableHeaderBottom(height)
    /\ ( /\ pc = "msg"
         /\ page_ops # <<>>
         /\ LastOp(page_ops)[1] = "msg" )
       => y_pos = LastOp(page_ops)[3]
\* a block of annotation lines went over a page break: a finalized page
\* ends its drawing with an annotation line and the page after it, started
\* by the callback, begins with one
C22_Witness ==
    \E p \in 2..Len(canvas) :
        /\ StartedByCallback(canvas[p])
        /\ 2 \in MsgPositions(canvas[p])
        /\ (Len(canvas[p - 1]) - 1) \in MsgPositions(canvas[p - 1])

\* ------------------------------------------------------------------------
\* C23
\* ------------------------------------------------------------------------
\* the planner shrinks: the variable columns exceed the space left
PlannerShrinks ==
    /\ pc = "plan"
    /\ pc' = "planned"
    /\ dynamic_cols_default_width(default_widths) >
           available_table_width(printable_width, default_widths)
\* the proportional share of column c of the available space, times the sum
\* of the two original widths
ShareTimesTotal(c) ==
    default_widths[c] * available_table_width(printable_width, default_widths)
BelowMinimum(c) ==
    ShareTimesTotal(c) < min_width * dynamic_cols_default_width(default_widths)

\* C23: in a step of the planner that shrinks variable columns of positive
\* total width, a column whose proportional share of the available space is
\* below the minimum is set to the minimum and any other column to its
\* share; when neither is below the minimum the two new widths sum to
\* exactly the available space and both are the same fraction of their
\* original width (the ratio of the two is kept).  New widths are in units
\* of 1 / (sum of the two original widths).
C23_ProportionalShrinkWithFloor ==
    [][ ( /\ PlannerShrinks
          /\ dynamic_cols_default_width(default_widths) > 0 )
        => LET total == dynamic_cols_default_width(default_widths)
               avail == available_table_width(printable_width, default_widths)
               new_sku_w == default_widths'[sku_col]
               new_desc_w == default_widths'[desc_col]
           IN  /\ width_scale' = total
               /\ \A c \in {sku_col, desc_col} :
                     default_widths'[c] =
                         IF BelowMinimum(c) THEN min_width * total
                         ELSE ShareTimesTotal(c)
               /\ (~BelowMinimum(sku_col) /\ ~BelowMinimum(desc_col)) =>
                     /\ new_sku_w + new_desc_w = avail * total
                     /\ new_sku_w = default_widths[sku_col] * avail
                     /\ new_desc_w = default_widths[desc_col] * avail
      ]_vars
\* the planner has shrunk two variable columns of different widths, neither
\* down to the minimum: the wider column is still the wider one
C23_Witness ==
    /\ pc = "planned"
    /\ width_scale > 1
    /\ default_widths[sku_col] > default_widths[desc_col]
    /\ default_widths[desc_col] > min_width * width_scale
    /\ TotalColumnWidth = PrintableTableWidth(printable_width) * width_scale

\* ------------------------------------------------------------------------
\* C24
\* ------------------------------------------------------------------------
\* the n-th smallest element of a set of numbers
NthOf(S, n) == CHOOSE x \in S : Cardinality({ y \in S : y <= x }) = n
\* the finalized pages of the k-th paginated sheet
PagesOfSheet(k) ==
    LET starts == FirstPagesOf(canvas)
        from == NthOf(starts, k)
        to == IF k < Cardinality(starts) THEN NthOf(starts, k + 1) - 1
              ELSE Len(canvas)
    IN  SubSeq(canvas, from, to)
\* the first page of a sheet is about to be started
AtFirstPageOfSheet == pc = "while" /\ page_num = 0 /\ sheet_pos >= 1

\* C24: when the first page of a sheet is about to be started the group
\* keys are unset, the entity set is empty, the box top is unset, the
\* continuation flag is false, the row index is zero and nothing is drawn
\* on an open page; and when the sheet loop has taken every sheet, two
\* paginated sheets with the same sorted rows have the same pages, whatever
\* sheets came before each of them.
C24_SheetStartsFresh ==
    /\ AtFirstPageOfSheet =>
          /\ <<current_store, current_order, current_job>>
                 = <<None, None, None>>
          /\ entities_in_current_store_box = {}
          /\ store_start_y = NoneY
          /\ is_continuing_store_box = FALSE
          /\ current_row_index = 0
          /\ page_ops = <<>>
    /\ (AtSheetLoop /\ sheet_pos = Len(xls)) =>
          \A i, j \in 1..Len(xls) :
              ( /\ i < j
                /\ Paginable(xls[i]) /\ Paginable(xls[j])
                /\ sort_values(xls[i].rows) = sort_values(xls[j].rows) )
              => PagesOfSheet(PaginableUpTo(i)) = PagesOfSheet(PaginableUpTo(j))
\* the first page of the second sheet is about to be started after a first
\* sheet of two stores was paginated on more than one page
C24_Witness ==
    /\ AtFirstPageOfSheet
    /\ sheet_pos = 2
    /\ Paginable(xls[1])
    /\ Len(canvas) >= 2
    /\ \E r \in 1..Len(xls[1].rows) :
          xls[1].rows[r].store # xls[2].rows[1].store

\* ------------------------------------------------------------------------
\* C25
\* ------------------------------------------------------------------------
\* the cursor after a page start by the outer loop (lines 415-420)
FirstContentY == TableHeaderBottom(height) - header_gap

\* C25: when the first row of the sheet is up for its page-break check the
\* group keys are its own keys, the store box starts at the first content
\* cursor of the page and the cursor is one store padding below it; no gap
\* is ever drawn for the first row; and the first row is drawn as the first
\* thing after the header of page 1, one store padding below the first
\* content cursor.
C25_FirstRowOpensGroupWithoutGap ==
    /\ (pc = "row_check" /\ index = 0) =>
          /\ <<current_store, current_order, current_job>> = KeysOf(df_sheet[1])
          /\ store_start_y = FirstContentY
          /\ y_pos = FirstContentY - store_padding
          /\ page_ops = << HeaderOp(1, "loop") >>
    /\ GapsOfRow(0) = <<>>
    /\ LET pages == AllPages
       IN  \A p \in 1..Len(pages) :
               RowOpsOf(pages[p], 0) # <<>> =>
                   /\ pages[p][1] = HeaderOp(1, "loop")
                   /\ pages[p][2] = RowOp(0, FirstContentY - store_padding)
\* a finished run: the first row was drawn on page 1 and the second row,
\* of another group, got its gap
C25_Witness ==
    /\ pc = "done"
    /\ Len(canvas) >= 1
    /\ RowOpsOf(canvas[1], 0) # <<>>
    /\ Len(GapsOfRow(1)) = 1

\* ------------------------------------------------------------------------
\* C26
\* ------------------------------------------------------------------------
\* the box tops recorded while a page is drawn: the first content cursor of
\* a page started by the outer loop (lines 427 and 444) and the cursor below
\* every store gap drawn on the page (line 480)
TopsRecordedOn(page) ==
    (IF StartedByCallback(page) THEN {} ELSE {FirstContentY})
      \cup { g[4] - store_gap : g \in { o \in Range(OpsOf(page, "gap")) :
                                          o[2] = "store" } }

\* C26: every store-box rectangle drawn on a page has as its top edge a box
\* top recorded on that page, has positive height, and ends at or above the
\* page bottom margin.
C26_RectangleTopRecordedOnItsPage ==
    \A p \in 1..Len(AllPages) :
        \A r \in Range(OpsOf(AllPages[p], "rect")) :
            /\ r[3] \in TopsRecordedOn(AllPages[p])
            /\ r[3] > r[4]
            /\ r[4] >= page_bottom_margin_y

\* ------------------------------------------------------------------------
\* C27
\* ------------------------------------------------------------------------
\* the rows (1-based) that open a store box: the first row and every row
\* whose store differs from the row before it
BoxOpeners ==
    { i \in 1..Len(df_sheet) : i = 1 \/ df_sheet[i].store # df_sheet[i - 1].store }
\* the rows of the box opened by row i: up to the row before the next opener
BoxOf(i) ==
    { j \in i..Len(df_sheet) : \A k \in (i + 1)..j : k \notin BoxOpeners }
MessagesOfBox(i) ==
    _build_fragmentation_lines({ KeysOf(df_sheet[j]) : j \in BoxOf(i) },
                               store_report_map, sheet_name)
\* the annotation lines of a run that draws the messages of every store box
\* once
LinesDrawnOncePerBox ==
    SumSeq([i \in 1..Len(df_sheet) |->
               IF i \in BoxOpeners THEN Len(MessagesOfBox(i)) * wrap_count
               ELSE 0])

\* C27: when pagination has finished, the annotation lines drawn are those
\* of every store box drawn once: a deferred store transition does not make
\* the messages of a box appear a second time.
C27_MessagesDrawnOncePerBox ==
    pc = "done" => Len(AllOps("msg")) = LinesDrawnOncePerBox

\* ------------------------------------------------------------------------
\* C28
\* ------------------------------------------------------------------------
\* the pages on which something of a kind was drawn for row i
PagesWith(kind, i) ==
    LET pages == AllPages
    IN  { p \in 1..Len(pages) :
            \E n \in 1..Len(pages[p]) :
                /\ pages[p][n][1] = kind
                /\ IF kind = "gap" THEN pages[p][n][3] = i
                                   ELSE pages[p][n][2] = i }

\* C28: a row that has been drawn has had the gap of its transition drawn
\* exactly once, on the page of the row or on an earlier page, and no gap
\* when it is the first row or a row of the current group; when pagination
\* has finished every transition of the sheet has had its gap drawn once.
C28_GapDrawnOncePerTransition ==
    LET gaps == AllOps("gap")
    IN  /\ \A i \in 0..(Len(df_sheet) - 1) :
              LET of_row == GapsAmong(gaps, i)
                  row_pages == PagesWith("row", i)
              IN  row_pages # {} =>
                      IF i >= 1 /\ GapKind(i) # None
                      THEN /\ Len(of_row) = 1
                           /\ of_row[1][2] = GapKind(i)
                           /\ \A p \in PagesWith("gap", i), q \in row_pages :
                                 p <= q
                      ELSE of_row = <<>>
        /\ pc = "done" =>
              \A i \in 1..(Len(df_sheet) - 1) :
                  Len(GapsAmong(gaps, i)) = (IF GapKind(i) # None THEN 1 ELSE 0)
\* a finished run in which the gap of a transition was drawn at the bottom
\* of one page and its row, deferred, on the next page
C28_Witness ==
    /\ pc = "done"
    /\ \E i \in 1..(Len(df_sheet) - 1) :
          \E p \in PagesWith("gap", i), q \in PagesWith("row", i) : p < q

\* ------------------------------------------------------------------------
\* C29
\* ------------------------------------------------------------------------
\* the rows of a store drawn on a page between two heights
RowsEnclosed(page, store, top, bottom) ==
    { o \in Range(OpsOf(page, "row")) :
        /\ df_sheet[o[2] + 1].store = store
        /\ o[3] <= top
        /\ o[4] >= bottom }

\* C29: every store-box rectangle drawn on a page encloses at least one row
\* of its store drawn on that page.
C29_RectangleEnclosesRow ==
    \A p \in 1..Len(AllPages) :
        \A r \in Range(OpsOf(AllPages[p], "rect")) :
            RowsEnclosed(AllPages[p], r[2], r[3], r[4]) # {}

\* ------------------------------------------------------------------------
\* C30
\* ------------------------------------------------------------------------
\* C30: after a page start by the outer loop the cursor is at the first
\* content cursor (one store padding below it when a store box continues),
\* and the annotation line that is the first thing drawn on a page started
\* by the callback starts at that same first content cursor.
C30_SamePageStartCursor ==
    /\ (pc = "for" /\ page_ops = << HeaderOp(page_num, "loop") >>) =>
          \/ y_pos = FirstContentY
          \/ y_pos = FirstContentY - store_padding /\ store_start_y = FirstContentY
    /\ \A p \in 1..Len(AllPages) :
          ( /\ StartedByCallback(AllPages[p])
            /\ 2 \in MsgPositions(AllPages[p]) )
          => AllPages[p][2][2] = FirstContentY

====
